---- MODULE Spec2Model ----
(***************************************************************************)
(* Model of scripts/changed_settings.py: the tool that prints the          *)
(* differences in a settings schema between two tags of a repository.      *)
(*                                                                         *)
(* Python strings (file texts, entry names, paths) are sequences of        *)
(* one-symbol strings, so that splitting, searching and replacing are      *)
(* computed and not assumed.  A value of type `X | None` is a sequence of   *)
(* length at most one.                                                     *)
(***************************************************************************)
EXTENDS Integers, Sequences, FiniteSets, TLC

VARIABLES
  pc,        \* position of the run, or of the function under study
  call,      \* arguments of the function under study
  ret,       \* its result
  args,      \* the parsed command line: tag_from and tag_to
  remote,    \* what the host answers for the archive of each tag
  created,   \* number of temporary directories created so far
  tempdir,   \* "none", "live" or "removed"
  files,     \* the files below the temporary directory, by path
  outside,   \* the paths written outside the temporary directory
  local,     \* the local variables of main
  stdout,    \* what has been printed, in order
  raised,    \* the exception that left main, if any
  exit_code, \* the exit status of the process, once it has ended
  log        \* the steps of the pipeline executed so far

study == <<call, ret>>
run == <<args, remote, created, tempdir, files, outside, local, stdout, raised, exit_code, log>>
vars == <<pc, call, ret, args, remote, created, tempdir, files, outside, local, stdout, raised,
          exit_code, log>>

\* ---------------------------------------------------------------- bounds
MaxMapLen == 2
MaxEntries == 2
MaxNameLen == 3
MaxPieces == 2
MaxValueLen == 3

\* ------------------------------------------------------- Python helpers
None == <<>>
Some(x) == <<x>>

Range(s) == {s[i] : i \in 1..Len(s)}
Reverse(s) == [i \in 1..Len(s) |-> s[Len(s) + 1 - i]]

RECURSIVE SeqsUpTo(_, _)
SeqsUpTo(S, n) ==
  IF n = 0 THEN {<<>>}
  ELSE LET shorter == SeqsUpTo(S, n - 1)
       IN shorter \cup {Append(s, x) : s \in {t \in shorter : Len(t) = n - 1}, x \in S}

\* str.split(sep) for a one-symbol separator.
RECURSIVE split(_, _)
split(s, sep) ==
  IF \A i \in 1..Len(s) : s[i] # sep THEN <<s>>
  ELSE LET i == CHOOSE i \in 1..Len(s) : s[i] = sep /\ \A j \in 1..(i - 1) : s[j] # sep
       IN <<SubSeq(s, 1, i - 1)>> \o split(SubSeq(s, i + 1, Len(s)), sep)

\* ------------------------------------------------------- JSON values
\* A JSON object is a record from field names to JSON literals; the
\* literal of a scalar is its JSON text ("1", "true", "\"x\"", "null").
Fields == {"type", "default", "description", "markdownDescription"}

\* Python's == on the scalars json.loads produces: bool is a subclass of
\* int, so True == 1 and False == 0.
py_eq_scalar(v, w) ==
  \/ v = w
  \/ {v, w} = {"1", "true"}
  \/ {v, w} = {"0", "false"}

\* Python's == on two dicts: same keys, and == on every value.
py_eq(d1, d2) ==
  /\ DOMAIN d1 = DOMAIN d2
  /\ \A f \in DOMAIN d1 : py_eq_scalar(d1[f], d2[f])

\* A flattened schema (a dict, which keeps insertion order) is a sequence
\* of [key, value] items with distinct keys.
keys(m) == {m[i].key : i \in 1..Len(m)}
get(m, k) == (CHOOSE i \in 1..Len(m) : m[i].key = k)
value_of(m, k) == m[get(m, k)].value

\* ------------------------------------------------------- texts
QUOTE == "\""
PCT == "%"
BSL == "\\"
NL == "\n"
\* The symbol of the grave accent.
TICK == "tick"
Whitespace == {" ", NL}

\* str.replace(old, new): every non-overlapping occurrence, left to right.
RECURSIVE replace(_, _, _)
replace(s, old, new) ==
  IF Len(s) < Len(old) THEN s
  ELSE IF SubSeq(s, 1, Len(old)) = old
       THEN new \o replace(SubSeq(s, Len(old) + 1, Len(s)), old, new)
       ELSE <<Head(s)>> \o replace(Tail(s), old, new)

\* PurePosixPath(path).with_suffix(suffix); a suffix such as ".json" is one
\* symbol of the path.
SuffixSymbols == {".json", ".nls.json"}
with_suffix(path, suffix) ==
  IF Len(path) >= 2 /\ path[Len(path)] \in SuffixSymbols /\ path[Len(path) - 1] # "/"
  THEN SubSeq(path, 1, Len(path) - 1) \o <<suffix>>
  ELSE path \o <<suffix>>

\* ------------------------------------------------------- JSON texts
\* The JSON documents of the model are objects written in a miniature
\* syntax: "{", then members, then "}", with whitespace anywhere between
\* tokens.  A member is a one-symbol name followed by its value; a value is
\* a string in double quotes (with \" and \\ escapes) or one of the symbols
\* of ObjectSymbols, which stands for the text of a whole descriptor object.
MemberNames == {"a", "b", "c"}
ObjectSymbols == {"1", "2", "3", "4", "5"}

Base == [type |-> "\"any\"", default |-> "1", description |-> "\"d\""]

object_of(sym) ==
  CASE sym = "1" -> Base
    [] sym = "2" -> [Base EXCEPT !.default = "true"]
    [] sym = "3" -> [Base EXCEPT !.description = "\"e\""]
    [] sym = "4" -> [f \in Fields |-> IF f = "markdownDescription" THEN "\"m\"" ELSE Base[f]]
    [] sym = "5" -> [f \in Fields \ {"default", "markdownDescription"} |-> Base[f]]

is_string(value) == DOMAIN value = {"string"}

\* dict[key] = value: a new key goes last, a known key keeps its place.
put(m, k, v) ==
  IF k \in keys(m)
  THEN [m EXCEPT ![get(m, k)] = [key |-> k, value |-> v]]
  ELSE Append(m, [key |-> k, value |-> v])

RECURSIVE skip_ws(_)
skip_ws(t) == IF t # <<>> /\ Head(t) \in Whitespace THEN skip_ws(Tail(t)) ELSE t

\* The rest of a string literal after its opening quote: the decoded
\* string and the text after the closing quote, or None.
RECURSIVE scan_string(_, _)
scan_string(t, acc) ==
  IF t = <<>> \/ Head(t) = NL THEN None
  ELSE IF Head(t) = QUOTE THEN Some([str |-> acc, rest |-> Tail(t)])
  ELSE IF Head(t) = BSL
       THEN IF Len(t) >= 2 /\ t[2] \in {QUOTE, BSL}
            THEN scan_string(SubSeq(t, 3, Len(t)), Append(acc, t[2]))
            ELSE None
       ELSE scan_string(Tail(t), Append(acc, Head(t)))

\* The members after "{" up to the end of the document, or None.
RECURSIVE parse_members(_, _)
parse_members(text, acc) ==
  LET t == skip_ws(text)
  IN IF t = <<>> THEN None
     ELSE IF Head(t) = "}"
          THEN IF skip_ws(Tail(t)) = <<>> THEN Some(acc) ELSE None
     ELSE IF Head(t) \notin MemberNames THEN None
     ELSE LET v == skip_ws(Tail(t))
          IN IF v = <<>> THEN None
             ELSE IF Head(v) \in ObjectSymbols
                  THEN parse_members(Tail(v), put(acc, Head(t), object_of(Head(v))))
             ELSE IF Head(v) = QUOTE
                  THEN LET str == scan_string(Tail(v), <<>>)
                       IN IF str = None THEN None
                          ELSE parse_members(str[1].rest,
                                             put(acc, Head(t), [string |-> str[1].str]))
             ELSE None

\* json.loads(text): the dict, or None when the text is not a JSON object.
json_loads(text) ==
  LET t == skip_ws(text)
  IN IF t = <<>> \/ Head(t) # "{" THEN None ELSE parse_members(Tail(t), <<>>)

RECURSIVE escape(_)
escape(str) ==
  IF str = <<>> THEN <<>>
  ELSE (IF Head(str) \in {QUOTE, BSL} THEN <<BSL, Head(str)>> ELSE <<Head(str)>>) \o escape(Tail(str))

\* Lines 119-120, json.dumps(contents, indent=2), of a string or of a
\* descriptor object (which indent=2 spreads over several lines).
json_serialize(contents) ==
  IF is_string(contents)
  THEN <<QUOTE>> \o escape(contents.string) \o <<QUOTE>>
  ELSE <<"{", NL, " ", " ",
         CHOOSE sym \in ObjectSymbols : object_of(sym) = contents,
         NL, "}">>

\* Lines 114-116, for the query of the run: jq exits non-zero on input
\* that is not JSON, and otherwise prints the flattened schema.
jq(contents) == json_loads(contents)

\* ------------------------------------------------------- compare_json
\* Lines 101-111: the three-way difference of two flattened schemas.
compare_flattened(flatten_settings_1, flatten_settings_2) ==
  LET removed == SelectSeq(flatten_settings_1,
                           LAMBDA e : e.key \notin keys(flatten_settings_2))
      added == SelectSeq(flatten_settings_2,
                         LAMBDA e : e.key \notin keys(flatten_settings_1))
      changed == SelectSeq(flatten_settings_2,
                           LAMBDA e : /\ e.key \in keys(flatten_settings_1)
                                      /\ ~py_eq(e.value, value_of(flatten_settings_1, e.key)))
  IN [added |-> added,
      changed |-> changed,
      removed |-> [i \in 1..Len(removed) |-> removed[i].key]]

\* ------------------------------------------------------- zip archives
\* A ZipFile is the sequence of its entries, [name, content], in the order
\* of the central directory; names may repeat.
namelist(zip_file) == [i \in 1..Len(zip_file) |-> zip_file[i].name]

\* ZipFile.getinfo(name): of several entries with one name the last wins.
getinfo(zip_file, name) ==
  zip_file[CHOOSE i \in 1..Len(zip_file) :
             /\ zip_file[i].name = name
             /\ \A j \in (i + 1)..Len(zip_file) : zip_file[j].name # name]

\* ZipFile.extract(member, path): where below `path` the member is written,
\* as a sequence of components; empty, "." and ".." components are dropped.
extract_target(filepath) ==
  SelectSeq(split(filepath, "/"), LAMBDA x : x \notin {<<>>, <<".">>, <<"..">>})

\* Lines 67-83.
get_parent_directory(zip_file) ==
  LET names == namelist(zip_file)
      top_levels == {split(names[i], "/")[1] :
                       i \in {j \in 1..Len(names) : names[j] # <<>>}}
  IN IF Cardinality(top_levels) = 1
     THEN Some(CHOOSE t \in top_levels : TRUE)
     ELSE None

\* Lines 58-62: the name of the entry to extract, or None.  A str is
\* falsy when it is empty, a `str | None` when it is None or empty.
find_in_zip(zip_file, path) ==
  LET parent_name == get_parent_directory(zip_file)
      archive_path == IF parent_name # None /\ parent_name[1] # <<>>
                      THEN parent_name[1] \o <<"/">> \o path
                      ELSE path
      names == namelist(zip_file)
      hits == {i \in 1..Len(names) : names[i] = archive_path}
      filepath == IF hits = {} THEN None
                  ELSE Some(names[CHOOSE i \in hits : \A j \in hits : i <= j])
  IN IF filepath = None \/ filepath[1] = <<>> THEN None ELSE filepath

\* Lines 57-64: the text read, and the file written below target_dir.
read_file_from_zip(zip_file, path) ==
  LET filepath == find_in_zip(zip_file, path)
  IN IF filepath = None
     THEN [text |-> None, extracted |-> None]
     ELSE [text |-> Some(getinfo(zip_file, filepath[1]).content),
           extracted |-> Some(extract_target(filepath[1]))]

\* Lines 52-53: one replace per translation, in the order of the dict.
RECURSIVE substitute(_, _)
substitute(configuration, translations_json) ==
  IF translations_json = <<>> THEN configuration
  ELSE substitute(replace(configuration,
                          <<QUOTE, PCT, Head(translations_json).key, PCT, QUOTE>>,
                          json_serialize(Head(translations_json).value)),
                  Tail(translations_json))

\* A missing configuration file read as an empty text.
read_configuration_file_unchecked(zip_file, configuration_path) ==
  LET configuration == read_file_from_zip(zip_file, configuration_path)
  IN [raised |-> None,
      text |-> IF configuration.text = None THEN Some(<<>>) ELSE configuration.text,
      written |-> <<>>]

\* Lines 42-54: the exception raised or the text returned, and the files
\* written below target_dir, in the order they are written.
read_configuration_file(zip_file, configuration_path) ==
  LET configuration == read_file_from_zip(zip_file, configuration_path)
      translations_path == with_suffix(configuration_path, ".nls.json")
      translations == read_file_from_zip(zip_file, translations_path)
      written(r) == IF r.text = None THEN <<>>
                    ELSE <<[path |-> r.extracted[1], content |-> r.text[1]]>>
  IN IF configuration.text = None
     THEN [raised |-> Some([type |-> "Exception",
                            message |-> <<"Archive does not contain expected file", configuration_path>>]),
           text |-> None,
           written |-> <<>>]
     ELSE IF translations.text = None \/ translations.text[1] = <<>>
     THEN [raised |-> None,
           text |-> configuration.text,
           written |-> written(configuration) \o written(translations)]
     ELSE IF json_loads(translations.text[1]) = None
     THEN [raised |-> Some([type |-> "JSONDecodeError", message |-> <<>>]),
           text |-> None,
           written |-> written(configuration) \o written(translations)]
     ELSE [raised |-> None,
           text |-> Some(substitute(configuration.text[1], json_loads(translations.text[1])[1])),
           written |-> written(configuration) \o written(translations)]

\* ------------------------------------------------------- the run
\* The configuration_file_path of the run.
ConfigPath == <<"p", ".json">>
RepositoryUrl == <<"https://host/repo">>
Tags == {<<"a", "/", "b">>, <<"a", "_", "b">>}

\* Line 32: the characters of a tag that a file name cannot hold.
UnsafeSymbols == {"<", ">", ":", QUOTE, "/", BSL, "|", "?", "*"}
sanitize(tag) == [i \in 1..Len(tag) |-> IF tag[i] \in UnsafeSymbols THEN "_" ELSE tag[i]]

\* A path leaves the directory it is relative to through a ".." component.
escapes(path) == \E i \in 1..Len(path) : path[i] = <<"..">>

\* The file system after the given files are written, in order.
RECURSIVE written_below(_, _)
written_below(fs, writes) ==
  IF writes = <<>> THEN fs
  ELSE LET w == Head(writes)
           inside == [q \in DOMAIN fs.inside \cup {w.path} |->
                        IF q = w.path THEN w.content ELSE fs.inside[q]]
       IN written_below(IF escapes(w.path)
                        THEN [fs EXCEPT !.outside = @ \cup {w.path}]
                        ELSE [fs EXCEPT !.inside = inside],
                        Tail(writes))

\* Lines 30-39, given the answer of the host: what is printed, the
\* exception raised, the file written and the path returned.
download_github_artifact_by_tag(repository_url, tag, response) ==
  LET archive_url == repository_url \o <<"/archive/">> \o tag \o <<".zip">>
      zip_path == split(<<"archive-">> \o sanitize(tag) \o <<".zip">>, "/")
  IN CASE response.status = "200" ->
            [printed |-> <<>>, raised |-> None,
             written |-> <<[path |-> zip_path, content |-> response.body]>>,
             zip_path |-> Some(zip_path)]
       [] response.status = "HTTPError" ->
            [printed |-> <<[line |-> "Error downloading", url |-> archive_url]>>,
             raised |-> Some([type |-> "HTTPError", message |-> <<>>]),
             written |-> <<>>, zip_path |-> None]
       [] response.status = "URLError" ->
            [printed |-> <<>>,
             raised |-> Some([type |-> "URLError", message |-> <<>>]),
             written |-> <<>>, zip_path |-> None]
       [] response.status = "ConnectionResetError" ->
            [printed |-> <<>>,
             raised |-> Some([type |-> "ConnectionResetError", message |-> <<>>]),
             written |-> <<[path |-> zip_path, content |-> [truncated |-> TRUE]]>>,
             zip_path |-> None]

\* Lines 157-162: the lines of difflib.unified_diff over the lines of the
\* two texts.  The hunk is the common head, the lines only in a, the lines
\* only in b and the common tail; there is no line at all when a = b.
RECURSIVE common(_, _)
common(a, b) ==
  IF a # <<>> /\ b # <<>> /\ Head(a) = Head(b) THEN 1 + common(Tail(a), Tail(b)) ELSE 0

unified_diff(a, b, fromfile, tofile) ==
  IF a = b THEN <<>>
  ELSE LET head == common(a, b)
           ra == Reverse(SubSeq(a, head + 1, Len(a)))
           rb == Reverse(SubSeq(b, head + 1, Len(b)))
           tail == common(ra, rb)
           marked(mark, ls) == [i \in 1..Len(ls) |-> <<mark>> \o ls[i]]
       IN <<(<<"--- ">> \o fromfile), (<<"+++ ">> \o tofile)>>
          \o marked(" ", SubSeq(a, 1, head))
          \o marked("-", SubSeq(a, head + 1, Len(a) - tail))
          \o marked("+", SubSeq(b, head + 1, Len(b) - tail))
          \o marked(" ", SubSeq(a, Len(a) - tail + 1, Len(a)))

\* str.join
RECURSIVE join(_, _)
join(sep, ss) ==
  IF ss = <<>> THEN <<>>
  ELSE IF Len(ss) = 1 THEN ss[1]
  ELSE ss[1] \o <<sep>> \o join(sep, Tail(ss))

\* A failure of jq taken for an empty schema.
compare_json_unchecked(contents_1, contents_2) ==
  [jq_runs |-> 2, raised |-> None,
   result |-> Some(compare_flattened(IF jq(contents_1) = None THEN <<>> ELSE jq(contents_1)[1],
                                     IF jq(contents_2) = None THEN <<>> ELSE jq(contents_2)[1]))]

\* Lines 96-111: the number of runs of jq, and the exception raised or the
\* result.
compare_json(contents_1, contents_2) ==
  IF jq(contents_1) = None
  THEN [jq_runs |-> 1, raised |-> Some([type |-> "CalledProcessError", message |-> <<>>]),
        result |-> None]
  ELSE IF jq(contents_2) = None
  THEN [jq_runs |-> 2, raised |-> Some([type |-> "CalledProcessError", message |-> <<>>]),
        result |-> None]
  ELSE [jq_runs |-> 2, raised |-> None,
        result |-> Some(compare_flattened(jq(contents_1)[1], jq(contents_2)[1]))]

\* Lines 86-93: None when a value is not a descriptor with a description
\* and a default (KeyError, TypeError).
generate_sublime_settings_markdown(settings) ==
  IF \E i \in 1..Len(settings) :
       \/ is_string(settings[i].value)
       \/ "default" \notin DOMAIN settings[i].value
       \/ {"description", "markdownDescription"} \cap DOMAIN settings[i].value = {}
  THEN None
  ELSE Some([i \in 1..Len(settings) |->
               LET value == settings[i].value
               IN [comment |-> IF "markdownDescription" \in DOMAIN value
                               THEN value.markdownDescription
                               ELSE value.description,
                   key |-> settings[i].key,
                   default |-> value.default]])

\* Lines 123-130.
markdown_collapsible_section(summary, contents) ==
  [details |-> contents, summary |-> summary]

\* The sections with the changed keys ahead of the added ones.
sections_changed_first(added, changed, removed, diff) ==
  LET added_md == generate_sublime_settings_markdown(added)
      changed_md == generate_sublime_settings_markdown(changed)
      key_list == join(NL, [i \in 1..Len(removed) |-> <<" ", "-", " ", TICK, removed[i], TICK>>])
  IN IF (added # <<>> /\ added_md = None) \/ (changed # <<>> /\ changed_md = None)
     THEN None
     ELSE Some(
       (IF changed # <<>>
        THEN <<markdown_collapsible_section(<<"Changed keys", Len(changed)>>,
                                            [json |-> changed, settings |-> changed_md[1]])>>
        ELSE <<>>)
       \o (IF added # <<>>
           THEN <<markdown_collapsible_section(<<"Added keys", Len(added)>>,
                                               [json |-> added, settings |-> added_md[1]])>>
           ELSE <<>>)
       \o (IF removed # <<>>
           THEN <<[removed_keys |-> key_list, header |-> <<"Removed keys ($", Len(key_list), ")">>]>>
           ELSE <<>>)
       \o <<markdown_collapsible_section(<<"All changes in schema">>, [diff |-> diff])>>)

\* Lines 173-187: the sections after the intro, or None when a section
\* cannot be rendered.
sections(added, changed, removed, diff) ==
  LET added_md == generate_sublime_settings_markdown(added)
      changed_md == generate_sublime_settings_markdown(changed)
      key_list == join(NL, [i \in 1..Len(removed) |-> <<" ", "-", " ", TICK, removed[i], TICK>>])
  IN IF (added # <<>> /\ added_md = None) \/ (changed # <<>> /\ changed_md = None)
     THEN None
     ELSE Some(
       (IF added # <<>>
        THEN <<markdown_collapsible_section(<<"Added keys", Len(added)>>,
                                            [json |-> added, settings |-> added_md[1]])>>
        ELSE <<>>)
       \o (IF changed # <<>>
           THEN <<markdown_collapsible_section(<<"Changed keys", Len(changed)>>,
                                               [json |-> changed, settings |-> changed_md[1]])>>
           ELSE <<>>)
       \o (IF removed # <<>>
           THEN <<[removed_keys |-> key_list, header |-> <<"Removed keys ($", Len(key_list), ")">>]>>
           ELSE <<>>)
       \o <<markdown_collapsible_section(<<"All changes in schema">>, [diff |-> diff])>>)

intro(tag_from, tag_to) ==
  [intro |-> <<tag_from, tag_to>>,
   schema_url |-> RepositoryUrl \o <<"/blob/">> \o tag_to \o ConfigPath]

\* ------------------------------------------------------- inputs
Descriptors == {object_of(sym) : sym \in ObjectSymbols}

Items == [key : MemberNames, value : Descriptors]

Flattened ==
  {m \in SeqsUpTo(Items, MaxMapLen) :
     \A i, j \in 1..Len(m) : i # j => m[i].key # m[j].key}

\* ------------------------------------------------------- SpecCompare
\* The run has not started: the state of a process that only calls the
\* function under study.
NoRun ==
  /\ args = [tag_from |-> <<>>, tag_to |-> <<>>]
  /\ remote = <<>>
  /\ created = 0
  /\ tempdir = "none"
  /\ files = <<>>
  /\ outside = {}
  /\ local = <<>>
  /\ stdout = <<>>
  /\ raised = None
  /\ exit_code = None
  /\ log = <<>>

InitCompare ==
  /\ NoRun
  /\ pc = "compare"
  /\ call \in Flattened \X Flattened
  /\ ret = None

CallCompareJson ==
  /\ pc = "compare"
  /\ ret' = Some(compare_flattened(call[1], call[2]))
  /\ pc' = "compared"
  /\ UNCHANGED <<call, run>>

NextCompare == CallCompareJson

SpecCompare == InitCompare /\ [][NextCompare]_vars

\* C1: a key is added iff it is only in the newer schema, removed iff it
\* is only in the older one, changed iff it is in both with structurally
\* unequal descriptors; added and changed carry the newer descriptor; the
\* three collections are pairwise disjoint.
C1_Partition ==
  pc = "compared" =>
    LET A == call[1]
        B == call[2]
        r == ret[1]
    IN /\ keys(r.added) = keys(B) \ keys(A)
       /\ Range(r.removed) = keys(A) \ keys(B)
       /\ keys(r.changed) =
            {k \in keys(A) \cap keys(B) : value_of(A, k) # value_of(B, k)}
       /\ \A i \in 1..Len(r.added) : r.added[i].value = value_of(B, r.added[i].key)
       /\ \A i \in 1..Len(r.changed) : r.changed[i].value = value_of(B, r.changed[i].key)
       /\ keys(r.added) \cap keys(r.changed) = {}
       /\ keys(r.added) \cap Range(r.removed) = {}
       /\ keys(r.changed) \cap Range(r.removed) = {}
\* ------------------------------------------------------- SpecZip
NameSymbols == {"/", "d", "p"}
Names == SeqsUpTo(NameSymbols, MaxNameLen)

\* Logical paths of a file: not empty, not ending in a separator.
Paths == {n \in SeqsUpTo(NameSymbols, 2) : n # <<>> /\ n[Len(n)] # "/"}

Digits == <<"1", "2", "3", "4", "5">>

\* The archive with the given entry names; entry i holds the text Digits[i].
archive_of(names) ==
  [i \in 1..Len(names) |-> [name |-> names[i], content |-> <<Digits[i]>>]]

InitZip ==
  /\ NoRun
  /\ pc = "lookup"
  /\ call \in {<<archive_of(names), P>> : names \in SeqsUpTo(Names, MaxEntries), P \in Paths}
  /\ ret = None

CallReadFileFromZip ==
  /\ pc = "lookup"
  /\ ret' = Some(read_file_from_zip(call[1], call[2]).text)
  /\ pc' = "looked_up"
  /\ UNCHANGED <<call, run>>

NextZip == CallReadFileFromZip

SpecZip == InitZip /\ [][NextZip]_vars

\* The part of a name before its first separator.
top_level_of(n) ==
  LET seps == {i \in 1..Len(n) : n[i] = "/"}
  IN IF seps = {} THEN n
     ELSE SubSeq(n, 1, (CHOOSE i \in seps : \A j \in seps : i <= j) - 1)

\* C2: the lookup of P matches exactly d/P when all non-empty entry names
\* share the one top-level component d, exactly P otherwise, and yields
\* None when no entry has exactly that name.
C2_Resolve ==
  pc = "looked_up" =>
    LET zip_file == call[1]
        P == call[2]
        tops == {top_level_of(zip_file[i].name) :
                   i \in {j \in 1..Len(zip_file) : zip_file[j].name # <<>>}}
        target == IF Cardinality(tops) = 1
                  THEN (CHOOSE d \in tops : TRUE) \o <<"/">> \o P
                  ELSE P
        matches == {i \in 1..Len(zip_file) : zip_file[i].name = target}
    IN IF matches = {}
       THEN ret[1] = None
       ELSE ret[1] # None /\ \E i \in matches : ret[1][1] = zip_file[i].content
\* ------------------------------------------------------- SpecRead
RECURSIVE concat(_)
concat(ss) == IF ss = <<>> THEN <<>> ELSE Head(ss) \o concat(Tail(ss))

placeholder(k) == <<QUOTE, PCT, k, PCT, QUOTE>>

TranslationKeys == {"a", "b"}
Pieces == {placeholder("a"), placeholder("b"), <<"x">>, <<QUOTE>>, <<PCT>>}
Texts == {concat(ps) : ps \in SeqsUpTo(Pieces, MaxPieces)}
ValueSymbols == {PCT, QUOTE, "b"}
StringValues == {[string |-> v] : v \in SeqsUpTo(ValueSymbols, MaxValueLen)}

Translations ==
  {m \in SeqsUpTo([key : TranslationKeys, value : StringValues], Cardinality(TranslationKeys)) :
     \A i, j \in 1..Len(m) : i # j => m[i].key # m[j].key}

\* The text of a translations file holding the given members.
render(m) ==
  <<"{">> \o concat([i \in 1..Len(m) |-> <<m[i].key>> \o json_serialize(m[i].value)]) \o <<"}">>

\* The archive of a repository export: every file below the directory "d".
exported(configuration, translations) ==
  <<[name |-> <<"d", "/">> \o ConfigPath, content |-> configuration]>>
  \o (IF translations = None THEN <<>>
      ELSE <<[name |-> <<"d", "/">> \o with_suffix(ConfigPath, ".nls.json"),
              content |-> render(translations[1])]>>)

InitRead ==
  /\ NoRun
  /\ pc = "read"
  /\ call \in [text : Texts, translations : {None} \cup {Some(m) : m \in Translations}]
  /\ ret = None

CallReadConfigurationFile ==
  /\ pc = "read"
  /\ ret' = Some(read_configuration_file(exported(call.text, call.translations), ConfigPath))
  /\ pc' = "read_done"
  /\ UNCHANGED <<call, run>>

NextRead == CallReadConfigurationFile

SpecRead == InitRead /\ [][NextRead]_vars

\* The text with every placeholder that occurs in it replaced, in one pass.
RECURSIVE substituted_once(_, _)
substituted_once(text, T) ==
  IF text = <<>> THEN <<>>
  ELSE LET hits == {i \in 1..Len(T) :
                      /\ Len(text) >= 5
                      /\ SubSeq(text, 1, 5) = placeholder(T[i].key)}
       IN IF hits # {}
          THEN json_serialize(T[CHOOSE i \in hits : TRUE].value)
               \o substituted_once(SubSeq(text, 6, Len(text)), T)
          ELSE <<Head(text)>> \o substituted_once(Tail(text), T)

\* C3: with a translations file of strings, the text returned is the
\* primary text with each placeholder occurring in it replaced by the
\* serialized translation and nothing else altered, whatever the order of
\* the translations; without the file the primary text is returned as is.
C3_Substitution ==
  pc = "read_done" =>
    /\ ret[1].raised = None
    /\ IF call.translations = None
       THEN ret[1].text = Some(call.text)
       ELSE /\ ret[1].text = Some(substituted_once(call.text, call.translations[1]))
            /\ ret[1].text =
                 read_configuration_file(
                   exported(call.text, Some(Reverse(call.translations[1]))), ConfigPath).text
\* ------------------------------------------------------- Spec
\* The configuration files of the tags: every schema of up to MaxMapLen
\* settings, one to a line, and a few texts that are not of that form.
KeyOrder == <<"a", "b", "c">>

Schemas ==
  {m \in SeqsUpTo([k : 1..Len(KeyOrder), sym : {"1", "3"}], MaxMapLen) :
     \A i, j \in 1..Len(m) : i < j => m[i].k < m[j].k}

schema_text(m) ==
  <<"{", NL>> \o concat([i \in 1..Len(m) |-> <<KeyOrder[m[i].k], m[i].sym, NL>>]) \o <<"}">>

Schema == schema_text(<<[k |-> 1, sym |-> "1"]>>)
WithPlaceholder == <<"{", NL, "a">> \o placeholder("a") \o <<NL, "}">>

SchemaTexts ==
  {schema_text(m) : m \in Schemas}
  \cup { <<"{", NL, "a", "1", NL, NL, "}">>,
         <<"{", NL, "a", "2", NL, "}">>,
         <<"{", NL, "a", "4", NL, "}">>,
         <<"{", NL, "b", "5", NL, "}">>,
         <<"{", NL, "a">>,
         WithPlaceholder }

Archives ==
  {exported(text, None) : text \in SchemaTexts}
  \cup {exported(WithPlaceholder, Some(<<[key |-> "a", value |-> [string |-> <<"b">>]]>>)),
        exported(Schema, None) \o <<[name |-> <<"d", "/", "p", ".nls.json">>, content |-> <<"{">>]>>,
        <<[name |-> <<"d", "/", "r">>, content |-> <<>>]>>,
        <<[name |-> ConfigPath, content |-> Schema], [name |-> <<"r">>, content |-> <<>>]>>,
        <<[name |-> <<"..", "/">> \o ConfigPath, content |-> Schema]>>,
        <<>>}

Responses ==
  {[status |-> "200", body |-> [entries |-> zip_file]] : zip_file \in Archives}
  \cup {[status |-> "200", body |-> [garbage |-> TRUE]],
        [status |-> "HTTPError"],
        [status |-> "URLError"],
        [status |-> "ConnectionResetError"]}

Unbound ==
  [archive_path_1 |-> None, configuration_1 |-> None,
   archive_path_2 |-> None, configuration_2 |-> None,
   diff |-> None, output |-> None]

Init ==
  /\ pc = "start"
  /\ call = None
  /\ ret = None
  /\ args \in [tag_from : Tags, tag_to : Tags]
  /\ remote \in [Tags -> Responses]
  /\ created = 0
  /\ tempdir = "none"
  /\ files = <<>>
  /\ outside = {}
  /\ local = Unbound
  /\ stdout = <<>>
  /\ raised = None
  /\ exit_code = None
  /\ log = <<>>

\* Both archives fetched before either is read.
sequel_downloads_first(step) ==
  CASE step = "download_1" -> "download_2"
    [] step = "download_2" -> "read_1"
    [] step = "read_1" -> "read_2"
    [] step = "read_2" -> "diff"

\* Lines 152-155: the order of the four steps, and what follows them.
sequel(step) ==
  CASE step = "download_1" -> "read_1"
    [] step = "read_1" -> "download_2"
    [] step = "download_2" -> "read_2"
    [] step = "read_2" -> "diff"

\* Line 151, on entry.
EnterTempdir ==
  /\ pc = "start"
  /\ created' = created + 1
  /\ tempdir' = "live"
  /\ files' = <<>>
  /\ pc' = "download_1"
  /\ UNCHANGED <<study, args, remote, outside, local, stdout, raised, exit_code, log>>

\* Lines 152 and 154.
Download(k) ==
  /\ pc = IF k = 1 THEN "download_1" ELSE "download_2"
  /\ \E tag \in {IF k = 1 THEN args.tag_from ELSE args.tag_to} :
     \E d \in {download_github_artifact_by_tag(RepositoryUrl, tag, remote[tag])} :
     \E fs \in {written_below([inside |-> files, outside |-> outside], d.written)} :
        /\ files' = fs.inside
        /\ outside' = fs.outside
        /\ stdout' = stdout \o d.printed
        /\ log' = Append(log, IF k = 1 THEN "download(tag_from)" ELSE "download(tag_to)")
        /\ raised' = d.raised
        /\ IF d.raised = None
           THEN /\ local' = IF k = 1 THEN [local EXCEPT !.archive_path_1 = d.zip_path]
                                     ELSE [local EXCEPT !.archive_path_2 = d.zip_path]
                /\ pc' = sequel(pc)
           ELSE /\ local' = local
                /\ pc' = "cleanup"
  /\ UNCHANGED <<study, args, remote, created, tempdir, exit_code>>

DownloadFrom == Download(1)
DownloadTo == Download(2)

\* ZipFile(zip_path), then lines 42-54: a file that is no archive raises
\* BadZipFile.
open_and_read(opened) ==
  IF "entries" \in DOMAIN opened
  THEN read_configuration_file(opened.entries, ConfigPath)
  ELSE [raised |-> Some([type |-> "BadZipFile", message |-> <<>>]),
        text |-> None, written |-> <<>>]

\* Lines 153 and 155.
Read(k) ==
  /\ pc = IF k = 1 THEN "read_1" ELSE "read_2"
  /\ \E zip_path \in {IF k = 1 THEN local.archive_path_1[1] ELSE local.archive_path_2[1]} :
     \E r \in {open_and_read(files[zip_path])} :
     \E fs \in {written_below([inside |-> files, outside |-> outside],
                              [i \in 1..Len(r.written) |->
                                 [path |-> r.written[i].path,
                                  content |-> [text |-> r.written[i].content]]])} :
        /\ files' = fs.inside
        /\ outside' = fs.outside
        /\ log' = Append(log, IF k = 1 THEN "read(tag_from)" ELSE "read(tag_to)")
        /\ raised' = r.raised
        /\ IF r.raised = None
           THEN /\ local' = IF k = 1 THEN [local EXCEPT !.configuration_1 = r.text]
                                     ELSE [local EXCEPT !.configuration_2 = r.text]
                /\ pc' = sequel(pc)
           ELSE /\ local' = local
                /\ pc' = "cleanup"
  /\ UNCHANGED <<study, args, remote, created, tempdir, stdout, exit_code>>

ReadFrom == Read(1)
ReadTo == Read(2)

\* Lines 157-168.
Diff ==
  /\ pc = "diff"
  /\ \E diff \in {join(NL, unified_diff(split(local.configuration_1[1], NL),
                                        split(local.configuration_2[1], NL),
                                        args.tag_from, args.tag_to))} :
       local' = [local EXCEPT !.diff = Some(diff),
                              !.output = Some(<<intro(args.tag_from, args.tag_to)>>)]
  /\ log' = Append(log, "diff")
  /\ pc' = "report"
  /\ UNCHANGED <<study, args, remote, created, tempdir, files, outside, stdout, raised, exit_code>>

\* A report of the changes for texts that do not differ.
has_changes_always(diff) == TRUE

\* Line 170: a str is truthy when it is not empty.
has_changes(diff) == diff # <<>>

\* Lines 171-187: the exception raised or the sections to print, and the
\* steps taken.
report_changes(contents_1, contents_2, diff) ==
  LET c == compare_json(contents_1, contents_2)
      jq_runs == [i \in 1..c.jq_runs |-> "jq"]
      ss == sections(c.result[1].added, c.result[1].changed, c.result[1].removed, diff)
  IN IF c.raised # None
     THEN [raised |-> c.raised, steps |-> jq_runs, sections |-> <<>>]
     ELSE IF ss = None
     THEN [raised |-> Some([type |-> "KeyError", message |-> <<>>]),
           steps |-> jq_runs \o <<"format">>, sections |-> <<>>]
     ELSE [raised |-> None, steps |-> jq_runs \o <<"format">>, sections |-> ss[1]]

\* Lines 170-187.
ReportChanges ==
  /\ pc = "report"
  /\ has_changes(local.diff[1])
  /\ \E r \in {report_changes(local.configuration_1[1], local.configuration_2[1],
                              local.diff[1])} :
        /\ raised' = r.raised
        /\ log' = log \o r.steps
        /\ pc' = IF r.raised = None THEN "print" ELSE "cleanup"
        /\ local' = [local EXCEPT !.output = Some(@[1] \o r.sections)]
  /\ UNCHANGED <<study, args, remote, created, tempdir, files, outside, stdout, exit_code>>

\* Lines 188-189.
NoChanges ==
  /\ pc = "report"
  /\ ~has_changes(local.diff[1])
  /\ local' = [local EXCEPT !.output = Some(Append(@[1], [text |-> "No changes"]))]
  /\ pc' = "print"
  /\ UNCHANGED <<study, args, remote, created, tempdir, files, outside, stdout, raised,
                 exit_code, log>>

\* Line 191.
PrintReport ==
  /\ pc = "print"
  /\ stdout' = Append(stdout, [report |-> local.output[1]])
  /\ log' = Append(log, "print")
  /\ pc' = "cleanup"
  /\ UNCHANGED <<study, args, remote, created, tempdir, files, outside, local, raised, exit_code>>

\* A directory removed at the end of the block only, not when it raises.
ExitTempdirAtEndOnly ==
  /\ pc = "cleanup"
  /\ tempdir' = IF raised = None THEN "removed" ELSE tempdir
  /\ files' = IF raised = None THEN <<>> ELSE files
  /\ exit_code' = Some(IF raised = None THEN 0 ELSE 1)
  /\ pc' = "exit"
  /\ UNCHANGED <<study, args, remote, created, outside, local, stdout, raised, log>>

\* Line 151, on exit: the directory goes with all it holds, whether the
\* block ended or raised; an exception that leaves main ends the process
\* with status 1.
ExitTempdir ==
  /\ pc = "cleanup"
  /\ tempdir' = "removed"
  /\ files' = <<>>
  /\ exit_code' = Some(IF raised = None THEN 0 ELSE 1)
  /\ pc' = "exit"
  /\ UNCHANGED <<study, args, remote, created, outside, local, stdout, raised, log>>

Next ==
  \/ EnterTempdir
  \/ DownloadFrom
  \/ ReadFrom
  \/ DownloadTo
  \/ ReadTo
  \/ Diff
  \/ ReportChanges
  \/ NoChanges
  \/ PrintReport
  \/ ExitTempdir

Spec == Init /\ [][Next]_vars
\* ------------------------------------------------------- claims on the run
both_read == local.configuration_1 # None /\ local.configuration_2 # None
same_texts == both_read /\ local.configuration_1 = local.configuration_2
reports == {i \in 1..Len(stdout) : "report" \in DOMAIN stdout[i]}

\* C4: when the two texts read are identical the diff is empty, jq is never
\* run, and the run prints the intro and "No changes" only and exits with
\* status 0.
C4_NoChanges ==
  same_texts =>
    /\ "jq" \notin Range(log)
    /\ local.diff \in {None, Some(<<>>)}
    /\ pc = "exit" =>
         /\ local.diff = Some(<<>>)
         /\ stdout = <<[report |-> <<intro(args.tag_from, args.tag_to), [text |-> "No changes"]>>]>>
         /\ exit_code = Some(0)

C4_Witness ==
  /\ pc = "exit"
  /\ same_texts
  /\ args.tag_from # args.tag_to
  /\ stdout # <<>>

\* What a part of the report is: the intro, a collapsible section (by its
\* summary), the list of removed keys, or a plain line.
kind_of(part) ==
  IF "intro" \in DOMAIN part THEN "intro"
  ELSE IF "summary" \in DOMAIN part THEN part.summary[1]
  ELSE IF "removed_keys" \in DOMAIN part THEN "Removed keys"
  ELSE "line"

absent_in(tag) ==
  /\ remote[tag].status = "200"
  /\ "entries" \in DOMAIN remote[tag].body
  /\ find_in_zip(remote[tag].body.entries, ConfigPath) = None

\* C6: the read of an archive that lacks the configuration path ends the
\* run with an error naming the path, with nothing printed and no step
\* after that read.
C6_MissingFile ==
  \A i \in 1..Len(log) :
    (\/ log[i] = "read(tag_from)" /\ absent_in(args.tag_from)
     \/ log[i] = "read(tag_to)" /\ absent_in(args.tag_to)) =>
      /\ i = Len(log)
      /\ pc \in {"cleanup", "exit"}
      /\ raised # None
      /\ raised[1].type = "Exception"
      /\ raised[1].message[2] = ConfigPath
      /\ stdout = <<>>
      /\ pc = "exit" => exit_code = Some(1)

C6_Witness ==
  /\ pc = "exit"
  /\ log = <<"download(tag_from)", "read(tag_from)", "download(tag_to)", "read(tag_to)">>
  /\ absent_in(args.tag_to)

\* C7: a download that fails, whatever the error, prints a diagnostic
\* naming the archive URL, returns no path, and ends the run with a
\* non-zero status and no report.
C7_DownloadFailure ==
  \A k \in {1, 2} :
    LET tag == IF k = 1 THEN args.tag_from ELSE args.tag_to
        step == IF k = 1 THEN "download(tag_from)" ELSE "download(tag_to)"
    IN (step \in Range(log) /\ remote[tag].status # "200") =>
         /\ \E i \in 1..Len(stdout) :
              /\ "url" \in DOMAIN stdout[i]
              /\ stdout[i].url = RepositoryUrl \o <<"/archive/">> \o tag \o <<".zip">>
         /\ raised # None
         /\ (IF k = 1 THEN local.archive_path_1 ELSE local.archive_path_2) = None
         /\ reports = {}
         /\ pc = "exit" => exit_code = Some(1)

malformed(text) == jq(text) = None

\* C8 as stated: malformed JSON in the text of either tag ends the run
\* with a non-zero status and no report, also when both texts are the same.
C8_AnyMalformed ==
  (pc = "exit" /\ both_read
   /\ (malformed(local.configuration_1[1]) \/ malformed(local.configuration_2[1]))) =>
    /\ exit_code = Some(1)
    /\ reports = {}

\* C8 as amended: malformed JSON in the text of either tag ends the run
\* with a non-zero status and no report when the two texts differ; when
\* both tags carry the same malformed text the run prints "No changes" and
\* exits with status 0.
C8_MalformedAndDifferent ==
  (pc = "exit" /\ both_read
   /\ (malformed(local.configuration_1[1]) \/ malformed(local.configuration_2[1]))) =>
    IF same_texts
    THEN /\ exit_code = Some(0)
         /\ kind_of(stdout[1].report[2]) = "line"
    ELSE /\ exit_code = Some(1)
         /\ raised # None
         /\ raised[1].type = "CalledProcessError"
         /\ reports = {}

C8_Witness ==
  /\ pc = "exit"
  /\ both_read
  /\ ~malformed(local.configuration_1[1])
  /\ malformed(local.configuration_2[1])

\* C9: one temporary directory is created per run; when the run ends,
\* however it ends, the directory and all that was written into it are
\* gone; nothing is ever written outside it.
C9_Scratch ==
  /\ created <= 1
  /\ outside = {}
  /\ tempdir # "live" => DOMAIN files = {}
  /\ pc = "exit" => created = 1 /\ tempdir = "removed"

C9_Witness ==
  /\ pc = "exit"
  /\ raised # None
  /\ "read(tag_to)" \in Range(log)
  /\ \E e \in Range(remote[args.tag_from].body.entries) : <<"..">> \in Range(split(e.name, "/"))

\* The text of the configuration file in the archive the host serves.
served(tag) == read_configuration_file(remote[tag].body.entries, ConfigPath).text

\* C10: the steps run in the order download(tag_from), read(tag_from),
\* download(tag_to), read(tag_to), and the text held for each tag is the
\* one of the configuration file in that tag's archive, whatever the
\* second download and read overwrite.
C10_OwnText ==
  /\ \A i \in 1..Len(log) :
       i <= 4 => log[i] = <<"download(tag_from)", "read(tag_from)",
                            "download(tag_to)", "read(tag_to)">>[i]
  /\ local.configuration_1 # None => local.configuration_1 = served(args.tag_from)
  /\ local.configuration_2 # None => local.configuration_2 = served(args.tag_to)

C10_Witness ==
  /\ pc = "exit"
  /\ both_read
  /\ ~same_texts
  /\ args.tag_from # args.tag_to
  /\ local.archive_path_1 = local.archive_path_2
====
